---- MODULE Spec2Model ----
(***************************************************************************)
(* Model of the session-bound OAuth2 token lifecycle of app.py: the        *)
(* session's credential fields, the authorization-code exchange of the     *)
(* /callback handler, the lazy refresh of get_valid_access_token and the   *)
(* proxy handlers that consume it.                                         *)
(*                                                                         *)
(* Conventions.  Python's None (and a key missing from a dict that is read *)
(* with .get) is the value None; a field that holds an integer or is       *)
(* missing is a sequence of length 0 or 1.  The authorization server and   *)
(* the upstream API are the environment: their answers are inputs of the   *)
(* handler actions.  A handler runs within one clock reading.              *)
(***************************************************************************)
EXTENDS Integers, Sequences, FiniteSets, TLC

VARIABLES session, now, debug, issued, last, inflight

vars == <<session, now, debug, issued, last, inflight>>

None == "None"

\* ------------------------------------------------------------------ bounds
\* The clock stops advancing once it has reached MaxNow.
MaxNow == 62

\* Amounts of time that may pass between two requests.
Deltas == {29, 31}

\* ------------------------------------------------------- program constants
\* store_tokens: expires_in = tokens.get("expires_in", 3600)
DefaultExpiresIn == 3600

\* store_tokens: ... + int(expires_in) - 30
Margin == 30

\* ------------------------------------------------------------ environment
AccessTokens == {"A", "B"}
RefreshTokens == {"R1", "R2"}
\* The locationId the redirect may carry, and the one a token response may.
RedirectLocation == "L1"
ResponseLocation == "L2"
Companies == {"C1", "C2"}
ExpiresIns == {<<>>, <<30>>, <<60>>}

\* The answer of the token endpoint to a request it rejects (a 4xx status).
Rejected ==
  [status |-> 400, access_token |-> None, refresh_token |-> None,
   expires_in |-> <<>>, locationId |-> None, companyId |-> None]

\* A 200 answer whose JSON body carries no access_token.
Malformed == [Rejected EXCEPT !.status = 200]

\* 200 answers that issue an access token; every other key may be missing.
Granted ==
  [status : {200}, access_token : AccessTokens,
   refresh_token : RefreshTokens \cup {None}, expires_in : ExpiresIns,
   locationId : {ResponseLocation, None}, companyId : Companies \cup {None}]

TokenResponses == {Rejected, Malformed} \cup Granted

\* The answers the token endpoint may give to a request made from session s:
\* it never issues again the access token the session already holds.
ServerAnswers(s) ==
  {x \in TokenResponses :
     x.access_token = None \/ x.access_token /= s.access_token}

\* What the token endpoint answers to POST data `data` when it would answer
\* `resp` to a well-formed request: a refresh grant that carries no refresh
\* token is rejected.
token_endpoint(data, resp) ==
  IF data.grant_type = "refresh_token" /\ data.refresh_token = None
  THEN Rejected
  ELSE resp

\* No token request was sent, so there is no answer.
NoResp == [Rejected EXCEPT !.status = 0]

\* Answers of the upstream API: a status and whether the body parses as JSON.
UpstreamAnswers == [status : {200, 500}, json : BOOLEAN]

NoAnswer == [status |-> 0, json |-> FALSE]

\* ---------------------------------------------------------------- session
EmptySession ==
  [access_token |-> None, refresh_token |-> None, token_expires_at |-> <<>>,
   location_id |-> None, company_id |-> None]

\* dict.get(key, default) on an integer field
GetInt(field, default) == IF field = <<>> THEN default ELSE field[1]

\* Response.raise_for_status(): raises HTTPError on a 4xx or 5xx status.
raise_for_status(resp) == resp.status >= 400 /\ resp.status < 600

\* ------------------------------------------------------------ store_tokens
\* store_tokens with the expiry stored as a duration instead of an instant
\* (the int(time.time()) term left out).
store_tokens_relative(s, tokens, location_id, t) ==
  IF tokens.access_token = None
  THEN [session |-> s, exc |-> "KeyError"]
  ELSE
    LET s3 == [s EXCEPT
                 !.access_token = tokens.access_token,
                 !.refresh_token = tokens.refresh_token,
                 !.token_expires_at =
                    <<GetInt(tokens.expires_in, DefaultExpiresIn) - Margin>>]
    IN IF location_id = None /\ tokens.locationId = None
       THEN [session |-> s3, exc |-> "KeyError"]
       ELSE
         LET s4 == [s3 EXCEPT
                      !.location_id = IF location_id /= None
                                      THEN location_id
                                      ELSE tokens.locationId]
         IN IF tokens.companyId = None
            THEN [session |-> s4, exc |-> "KeyError"]
            ELSE [session |-> [s4 EXCEPT !.company_id = tokens.companyId],
                  exc |-> None]

\* store_tokens with the refresh_token assignment moved before the
\* access_token one.
store_tokens_refresh_first(s, tokens, location_id, t) ==
  LET s1 == [s EXCEPT !.refresh_token = tokens.refresh_token]
  IN IF tokens.access_token = None
     THEN [session |-> s1, exc |-> "KeyError"]
     ELSE
       LET s3 == [s1 EXCEPT
                    !.access_token = tokens.access_token,
                    !.token_expires_at =
                       <<t + GetInt(tokens.expires_in, DefaultExpiresIn) - Margin>>]
       IN IF location_id = None /\ tokens.locationId = None
          THEN [session |-> s3, exc |-> "KeyError"]
          ELSE
            LET s4 == [s3 EXCEPT
                         !.location_id = IF location_id /= None
                                         THEN location_id
                                         ELSE tokens.locationId]
            IN IF tokens.companyId = None
               THEN [session |-> s4, exc |-> "KeyError"]
               ELSE [session |-> [s4 EXCEPT !.company_id = tokens.companyId],
                     exc |-> None]

\* store_tokens with the response's locationId preferred to the argument.
store_tokens_response_location(s, tokens, location_id, t) ==
  IF tokens.access_token = None
  THEN [session |-> s, exc |-> "KeyError"]
  ELSE
    LET s3 == [s EXCEPT
                 !.access_token = tokens.access_token,
                 !.refresh_token = tokens.refresh_token,
                 !.token_expires_at =
                    <<t + GetInt(tokens.expires_in, DefaultExpiresIn) - Margin>>]
    IN IF location_id = None /\ tokens.locationId = None
       THEN [session |-> s3, exc |-> "KeyError"]
       ELSE
         LET s4 == [s3 EXCEPT
                      !.location_id = IF tokens.locationId /= None
                                      THEN tokens.locationId
                                      ELSE location_id]
         IN IF tokens.companyId = None
            THEN [session |-> s4, exc |-> "KeyError"]
            ELSE [session |-> [s4 EXCEPT !.company_id = tokens.companyId],
                  exc |-> None]

\* The assignments run in order; a KeyError ends the function and leaves the
\* assignments already made in the session.  The result is the session and
\* the exception raised (None when the function returns).
store_tokens(s, tokens, location_id, t) ==
  IF tokens.access_token = None
  THEN [session |-> s, exc |-> "KeyError"]
  ELSE
    LET s3 == [s EXCEPT
                 !.access_token = tokens.access_token,
                 !.refresh_token = tokens.refresh_token,
                 !.token_expires_at =
                    <<t + GetInt(tokens.expires_in, DefaultExpiresIn) - Margin>>]
    IN IF location_id = None /\ tokens.locationId = None
       THEN [session |-> s3, exc |-> "KeyError"]
       ELSE
         LET s4 == [s3 EXCEPT
                      !.location_id = IF location_id /= None
                                      THEN location_id
                                      ELSE tokens.locationId]
         IN IF tokens.companyId = None
            THEN [session |-> s4, exc |-> "KeyError"]
            ELSE [session |-> [s4 EXCEPT !.company_id = tokens.companyId],
                  exc |-> None]

\* ----------------------------------------------------------- token_expired
\* token_expired with > in place of >=.
token_expired_strict(s, t) ==
  s.token_expires_at = <<>> \/ t > s.token_expires_at[1]

token_expired(s, t) ==
  s.token_expires_at = <<>> \/ t >= s.token_expires_at[1]

\* ---------------------------------------------------- refresh_access_token
\* refresh_access_token that posts the grant a second time when the first
\* answer is an error status.
refresh_access_token_retry(s, t, resp) ==
  LET data == [grant_type |-> "refresh_token", refresh_token |-> s.refresh_token]
      answer == token_endpoint(data, resp)
  IN IF raise_for_status(answer)
     THEN [session |-> s, exc |-> "HTTPError",
           posts |-> <<data.grant_type, data.grant_type>>, resp |-> answer]
     ELSE LET st == store_tokens(s, answer, s.location_id, t)
          IN [session |-> st.session, exc |-> st.exc,
              posts |-> <<data.grant_type>>, resp |-> answer]

\* One POST of a refresh grant; `resp` is the server's answer to it.
refresh_access_token(s, t, resp) ==
  LET data == [grant_type |-> "refresh_token", refresh_token |-> s.refresh_token]
      answer == token_endpoint(data, resp)
  IN IF raise_for_status(answer)
     THEN [session |-> s, exc |-> "HTTPError",
           posts |-> <<data.grant_type>>, resp |-> answer]
     ELSE LET st == store_tokens(s, answer, s.location_id, t)
          IN [session |-> st.session, exc |-> st.exc,
              posts |-> <<data.grant_type>>, resp |-> answer]

\* -------------------------------------------------- get_valid_access_token
\* get_valid_access_token without the expiry check.
get_valid_access_token_unchecked(s, t, resp) ==
  [session |-> s, exc |-> None, ret |-> s.access_token,
   posts |-> <<>>, resp |-> NoResp]

\* get_valid_access_token that reads the access token before it refreshes.
get_valid_access_token_stale(s, t, resp) ==
  IF token_expired(s, t)
  THEN LET r == refresh_access_token(s, t, resp)
       IN [session |-> r.session, exc |-> r.exc,
           ret |-> IF r.exc = None THEN s.access_token ELSE None,
           posts |-> r.posts, resp |-> r.resp]
  ELSE [session |-> s, exc |-> None, ret |-> s.access_token,
        posts |-> <<>>, resp |-> NoResp]

\* ret is the value returned (None when session.get finds no access_token),
\* and is meaningful only when exc = None.
get_valid_access_token(s, t, resp) ==
  IF token_expired(s, t)
  THEN LET r == refresh_access_token(s, t, resp)
       IN [session |-> r.session, exc |-> r.exc,
           ret |-> IF r.exc = None THEN r.session.access_token ELSE None,
           posts |-> r.posts, resp |-> r.resp]
  ELSE [session |-> s, exc |-> None, ret |-> s.access_token,
        posts |-> <<>>, resp |-> NoResp]

\* ---------------------------------------------------------------- callback
Max(a, b) == IF a >= b THEN a ELSE b

\* The body of a response that is not the token envelope.
Body(kind) ==
  [kind |-> kind, access_token |-> None, refresh_token |-> None,
   expires_in |-> 0, location_id |-> None, company_id |-> None]

\* callback.build_response: the token envelope, read from the session.
build_response(s, t) ==
  [kind |-> "envelope", access_token |-> s.access_token,
   refresh_token |-> s.refresh_token,
   expires_in |-> Max(GetInt(s.token_expires_at, 0) - t, 0),
   location_id |-> s.location_id, company_id |-> s.company_id]

\* What a handler hands back: the session as it leaves it, the exception it
\* raised (None when it returned), the status and body of its response, the
\* token requests it sent with the answer it got, the upstream requests it
\* sent with the answer it got, and the value of get_valid_access_token.
Outcome(s, exc, status, body, posts, resp, gets, up, ret) ==
  [session |-> s, exc |-> exc, status |-> status, body |-> body,
   posts |-> posts, resp |-> resp, gets |-> gets, up |-> up, ret |-> ret]

\* An unhandled exception is answered with status 500.
Unhandled(s, exc, posts, resp) ==
  Outcome(s, exc, 500, Body("error"), posts, resp, <<>>, NoAnswer, None)

\* callback that exchanges the code whenever one is given, whatever the
\* session holds.
callback_always_exchange(s, t, error, code, location_id, resp) ==
  IF error /= None
  THEN Outcome(s, None, 400, Body("error"), <<>>, NoResp, <<>>, NoAnswer, None)
  ELSE IF s.access_token = None /\ code = None
  THEN Outcome(s, None, 400, Body("error"), <<>>, NoResp, <<>>, NoAnswer, None)
  ELSE IF code /= None
  THEN
    LET data == [grant_type |-> "authorization_code", code |-> code]
        answer == token_endpoint(data, resp)
    IN IF raise_for_status(answer)
       THEN Unhandled(s, "HTTPError", <<data.grant_type>>, answer)
       ELSE
         LET st == store_tokens(s, answer, location_id, t)
         IN IF st.exc /= None
            THEN Unhandled(st.session, st.exc, <<data.grant_type>>, answer)
            ELSE Outcome(st.session, None, 200, build_response(st.session, t),
                         <<data.grant_type>>, answer, <<>>, NoAnswer, None)
  ELSE IF token_expired(s, t)
  THEN
    LET r == refresh_access_token(s, t, resp)
    IN IF r.exc /= None
       THEN Unhandled(r.session, r.exc, r.posts, r.resp)
       ELSE Outcome(r.session, None, 200, build_response(r.session, t),
                    r.posts, r.resp, <<>>, NoAnswer, None)
  ELSE Outcome(s, None, 200, build_response(s, t),
               <<>>, NoResp, <<>>, NoAnswer, None)

\* callback without the check of the error parameter.
callback_error_ignored(s, t, error, code, location_id, resp) ==
  IF FALSE
  THEN Outcome(s, None, 400, Body("error"), <<>>, NoResp, <<>>, NoAnswer, None)
  ELSE IF s.access_token = None /\ code = None
  THEN Outcome(s, None, 400, Body("error"), <<>>, NoResp, <<>>, NoAnswer, None)
  ELSE IF s.access_token = None /\ code /= None
  THEN
    LET data == [grant_type |-> "authorization_code", code |-> code]
        answer == token_endpoint(data, resp)
    IN IF raise_for_status(answer)
       THEN Unhandled(s, "HTTPError", <<data.grant_type>>, answer)
       ELSE
         LET st == store_tokens(s, answer, location_id, t)
         IN IF st.exc /= None
            THEN Unhandled(st.session, st.exc, <<data.grant_type>>, answer)
            ELSE Outcome(st.session, None, 200, build_response(st.session, t),
                         <<data.grant_type>>, answer, <<>>, NoAnswer, None)
  ELSE IF token_expired(s, t)
  THEN
    LET r == refresh_access_token(s, t, resp)
    IN IF r.exc /= None
       THEN Unhandled(r.session, r.exc, r.posts, r.resp)
       ELSE Outcome(r.session, None, 200, build_response(r.session, t),
                    r.posts, r.resp, <<>>, NoAnswer, None)
  ELSE Outcome(s, None, 200, build_response(s, t),
               <<>>, NoResp, <<>>, NoAnswer, None)

callback(s, t, error, code, location_id, resp) ==
  IF error /= None
  THEN Outcome(s, None, 400, Body("error"), <<>>, NoResp, <<>>, NoAnswer, None)
  ELSE IF s.access_token = None /\ code = None
  THEN Outcome(s, None, 400, Body("error"), <<>>, NoResp, <<>>, NoAnswer, None)
  ELSE IF s.access_token = None /\ code /= None
  THEN
    LET data == [grant_type |-> "authorization_code", code |-> code]
        answer == token_endpoint(data, resp)
    IN IF raise_for_status(answer)
       THEN Unhandled(s, "HTTPError", <<data.grant_type>>, answer)
       ELSE
         LET st == store_tokens(s, answer, location_id, t)
         IN IF st.exc /= None
            THEN Unhandled(st.session, st.exc, <<data.grant_type>>, answer)
            ELSE Outcome(st.session, None, 200, build_response(st.session, t),
                         <<data.grant_type>>, answer, <<>>, NoAnswer, None)
  ELSE IF token_expired(s, t)
  THEN
    LET r == refresh_access_token(s, t, resp)
    IN IF r.exc /= None
       THEN Unhandled(r.session, r.exc, r.posts, r.resp)
       ELSE Outcome(r.session, None, 200, build_response(r.session, t),
                    r.posts, r.resp, <<>>, NoAnswer, None)
  ELSE Outcome(s, None, 200, build_response(s, t),
               <<>>, NoResp, <<>>, NoAnswer, None)

\* -------------------------------------------------------- search_locations
search_locations(s, t, resp, up) ==
  LET g == get_valid_access_token(s, t, resp)
  IN IF g.exc /= None
     THEN Unhandled(g.session, g.exc, g.posts, g.resp)
     ELSE IF g.ret = None
     THEN Outcome(g.session, None, 401, Body("error"),
                  g.posts, g.resp, <<>>, NoAnswer, g.ret)
     ELSE Outcome(g.session, None, up.status,
                  Body(IF up.json THEN "json" ELSE "text"),
                  g.posts, g.resp,
                  <<[path |-> "/locations/search", bearer |-> g.ret]>>,
                  up, g.ret)

\* ------------------------------------------------------ the proxy handlers
\* What a client sends with a proxy request: a bearer token in the
\* Authorization header, the query string (request.args) and a JSON body
\* (<<>> when the request has none).  None marks an absent key.
NoParams ==
  [access_token |-> None, locationId |-> None, location_id |-> None,
   companyId |-> None]

QueryLocation == "LQ"
BodyLocation == "LB"
QueryCompany == "CQ"

ProxyRequests ==
  { [header |-> None, query |-> NoParams, body |-> <<>>],
    [header |-> "H", query |-> NoParams, body |-> <<[locationId |-> None]>>],
    [header |-> None, query |-> [NoParams EXCEPT !.access_token = "Q"],
     body |-> <<>>],
    [header |-> None,
     query |-> [NoParams EXCEPT !.locationId = QueryLocation,
                                !.location_id = QueryLocation,
                                !.companyId = QueryCompany],
     body |-> <<[locationId |-> BodyLocation]>>],
    [header |-> None, query |-> [NoParams EXCEPT !.locationId = QueryLocation],
     body |-> <<>>],
    [header |-> None, query |-> NoParams,
     body |-> <<[locationId |-> BodyLocation]>>],
    [header |-> None, query |-> NoParams, body |-> <<[locationId |-> None]>>] }

\* Answers of the upstream API to a proxied call: the status and whether the
\* body parses as JSON.  The answer itself stands for its body text.
ProxyAnswers == [status : {200, 201, 500}, json : BOOLEAN]

\* The answer given to a request that was not sent.
Unsent == [status |-> 0, json |-> FALSE]

\* Answers of the token endpoint to the refresh a proxy handler triggers: a
\* rejection or a grant that carries every key.
ProxyServerAnswers(s) ==
  {x \in ServerAnswers(s) :
     \/ x = Rejected
     \/ /\ x.access_token /= None
        /\ x.refresh_token = "R1"
        /\ x.expires_in = <<60>>
        /\ x.locationId = ResponseLocation
        /\ x.companyId = "C1"}

\* One request to the upstream API.
UpReq(method, path, bearer, params, json) ==
  [method |-> method, path |-> path, bearer |-> bearer, params |-> params,
   json |-> json]

\* The JSON bodies the handlers build: `which` is the identifier an error
\* message names, `status_code` and `raw` the upstream status and body text it
\* carries.
ProxyBody(kind, which, status_code, raw) ==
  [kind |-> kind, which |-> which, status_code |-> status_code, raw |-> raw]

\* What a proxy handler hands back after get_valid_access_token returned g.
ProxyOutcome(g, status, body, gets, ups) ==
  [session |-> g.session, exc |-> None, status |-> status, body |-> body,
   posts |-> g.posts, resp |-> g.resp, gets |-> gets, up |-> NoAnswer,
   ups |-> ups, ret |-> g.ret]

\* get_valid_access_token raised: the request ends with status 500.
ProxyUnhandled(g) ==
  [session |-> g.session, exc |-> g.exc, status |-> 500,
   body |-> ProxyBody("exception", None, 0, Unsent),
   posts |-> g.posts, resp |-> g.resp, gets |-> <<>>, up |-> NoAnswer,
   ups |-> <<>>, ret |-> None]

Unauthorized(g) ==
  ProxyOutcome(g, 401, ProxyBody("unauthorized", None, 0, Unsent), <<>>, <<>>)

MissingTenant(g, which) ==
  ProxyOutcome(g, 400, ProxyBody("missing", which, 0, Unsent), <<>>, <<>>)

\* The tail the single-call handlers share: a status other than 200 is
\* answered with an error envelope under that status, a 200 whose body does
\* not parse with a 500, a parsed body is relayed.
relay(g, req, up) ==
  IF up.status /= 200
  THEN ProxyOutcome(g, up.status, ProxyBody("error", None, up.status, up),
                    <<req>>, <<up>>)
  ELSE IF ~up.json
  THEN ProxyOutcome(g, 500, ProxyBody("unparseable", None, 0, up),
                    <<req>>, <<up>>)
  ELSE ProxyOutcome(g, 200, ProxyBody("json", None, 0, up), <<req>>, <<up>>)

\* GET /get_campaigns: locationId from the query string, else the session's.
get_campaigns(s, t, req, resp, up) ==
  LET g == get_valid_access_token(s, t, resp)
  IN IF g.exc /= None THEN ProxyUnhandled(g)
     ELSE IF g.ret = None THEN Unauthorized(g)
     ELSE IF req.query.locationId = None /\ g.session.location_id = None
     THEN MissingTenant(g, "locationId")
     ELSE
       LET params == IF req.query.locationId = None
                     THEN [req.query EXCEPT !.locationId = g.session.location_id]
                     ELSE req.query
       IN relay(g, UpReq("GET", "/campaigns", g.ret, params, <<>>), up)

\* GET /get_opportunities: the key is location_id.
get_opportunities(s, t, req, resp, up) ==
  LET g == get_valid_access_token(s, t, resp)
  IN IF g.exc /= None THEN ProxyUnhandled(g)
     ELSE IF g.ret = None THEN Unauthorized(g)
     ELSE IF req.query.location_id = None /\ g.session.location_id = None
     THEN MissingTenant(g, "location_id")
     ELSE
       LET params == IF req.query.location_id = None
                     THEN [req.query EXCEPT !.location_id = g.session.location_id]
                     ELSE req.query
       IN relay(g, UpReq("GET", "/opportunities/search", g.ret, params, <<>>),
                up)

\* GET /get_users: companyId from the query string, else the session's; the
\* session's location is looked up when the query has no location_id and is
\* written under the key locationId.
get_users(s, t, req, resp, up) ==
  LET g == get_valid_access_token(s, t, resp)
  IN IF g.exc /= None THEN ProxyUnhandled(g)
     ELSE IF g.ret = None THEN Unauthorized(g)
     ELSE IF req.query.companyId = None /\ g.session.company_id = None
     THEN MissingTenant(g, "companyId")
     ELSE IF req.query.location_id = None /\ g.session.location_id = None
     THEN MissingTenant(g, "location_id")
     ELSE
       LET p1 == IF req.query.companyId = None
                 THEN [req.query EXCEPT !.companyId = g.session.company_id]
                 ELSE req.query
           p2 == IF req.query.location_id = None
                 THEN [p1 EXCEPT !.locationId = g.session.location_id]
                 ELSE p1
       IN relay(g, UpReq("GET", "/users/search", g.ret, p2, <<>>), up)

\* GET /search_contacts: the JSON body is read with get_json(force=True),
\* which answers 400 when the request has no JSON body; locationId from the
\* body, else the session's; the body is POSTed.
search_contacts(s, t, req, resp, up) ==
  LET g == get_valid_access_token(s, t, resp)
  IN IF g.exc /= None THEN ProxyUnhandled(g)
     ELSE IF g.ret = None THEN Unauthorized(g)
     ELSE IF req.body = <<>>
     THEN ProxyOutcome(g, 400, ProxyBody("bad_request", None, 0, Unsent),
                       <<>>, <<>>)
     ELSE IF req.body[1].locationId = None /\ g.session.location_id = None
     THEN MissingTenant(g, "locationId")
     ELSE
       LET body == IF req.body[1].locationId = None
                   THEN [req.body[1] EXCEPT !.locationId = g.session.location_id]
                   ELSE req.body[1]
       IN relay(g, UpReq("POST", "/contacts/search", g.ret, NoParams, <<body>>),
                up)

\* Answers to one call of a composite handler (a detail call, a leg of the
\* profile).
PartAnswers ==
  { [status |-> 200, json |-> TRUE], [status |-> 200, json |-> FALSE],
    [status |-> 500, json |-> TRUE] }

\* Answers to the conversation search: the parsed body's "conversations" is a
\* list of summaries, each given by its id (None: the summary has no id).
ConversationAnswers ==
  { [status |-> 500, json |-> TRUE, conversations |-> <<>>],
    [status |-> 201, json |-> TRUE, conversations |-> <<>>],
    [status |-> 200, json |-> FALSE, conversations |-> <<>>],
    [status |-> 200, json |-> TRUE, conversations |-> <<>>],
    [status |-> 200, json |-> TRUE, conversations |-> <<"c1", "c2", "c3">>],
    [status |-> 200, json |-> TRUE, conversations |-> <<"c1", None, "c2">>] }

\* One answer for each summary, used when the detail call for it is made.
DetailAnswers(up) == [1..Len(up.conversations) -> PartAnswers]

ConversationPath(id) ==
  CASE id = "c1" -> "/conversations/c1"
    [] id = "c2" -> "/conversations/c2"
    [] id = "c3" -> "/conversations/c3"

\* The entry appended for one detail answer.
detail_entry(id, d) ==
  IF d.status = 200
  THEN IF d.json
       THEN [id |-> id, kind |-> "detail", status_code |-> 0, raw |-> d]
       ELSE [id |-> id, kind |-> "unparseable", status_code |-> 0, raw |-> d]
  ELSE [id |-> id, kind |-> "error", status_code |-> d.status, raw |-> d]

\* The loop over the summaries that stops at the first detail call that did
\* not give a parsed 200.
RECURSIVE enrich_abort(_, _, _)
enrich_abort(conversations, details, bearer) ==
  IF conversations = <<>>
  THEN [gets |-> <<>>, ups |-> <<>>, detailed |-> <<>>]
  ELSE
    LET conversation_id == Head(conversations)
        d == Head(details)
        stop == d.status /= 200 \/ ~d.json
        rest == IF conversation_id /= None /\ stop
                THEN [gets |-> <<>>, ups |-> <<>>, detailed |-> <<>>]
                ELSE enrich_abort(Tail(conversations), Tail(details), bearer)
    IN IF conversation_id = None
       THEN rest
       ELSE [gets |-> <<UpReq("GET", ConversationPath(conversation_id),
                              bearer, NoParams, <<>>)>> \o rest.gets,
             ups |-> <<d>> \o rest.ups,
             detailed |-> <<detail_entry(conversation_id, d)>>
                          \o rest.detailed]

\* The loop over the summaries: a summary without id is skipped, every other
\* one gets its detail call and its entry, in order.
RECURSIVE enrich(_, _, _)
enrich(conversations, details, bearer) ==
  IF conversations = <<>>
  THEN [gets |-> <<>>, ups |-> <<>>, detailed |-> <<>>]
  ELSE
    LET conversation_id == Head(conversations)
        d == Head(details)
        rest == enrich(Tail(conversations), Tail(details), bearer)
    IN IF conversation_id = None
       THEN rest
       ELSE [gets |-> <<UpReq("GET", ConversationPath(conversation_id),
                              bearer, NoParams, <<>>)>> \o rest.gets,
             ups |-> <<d>> \o rest.ups,
             detailed |-> <<detail_entry(conversation_id, d)>>
                          \o rest.detailed]

\* GET /get_conversations_with_details
get_conversations_with_details(s, t, req, resp, up, details) ==
  LET g == get_valid_access_token(s, t, resp)
  IN IF g.exc /= None THEN ProxyUnhandled(g)
     ELSE IF g.ret = None THEN Unauthorized(g)
     ELSE IF req.query.locationId = None /\ g.session.location_id = None
     THEN MissingTenant(g, "locationId")
     ELSE
       LET params == IF req.query.locationId = None
                     THEN [req.query EXCEPT !.locationId = g.session.location_id]
                     ELSE req.query
           search == UpReq("GET", "/conversations/search", g.ret, params, <<>>)
           raw == [status |-> up.status, json |-> up.json]
       IN IF up.status /= 200
          THEN ProxyOutcome(g, up.status,
                            ProxyBody("error", None, up.status, raw),
                            <<search>>, <<raw>>)
          ELSE IF ~up.json
          THEN ProxyOutcome(g, 500, ProxyBody("unparseable", None, 0, raw),
                            <<search>>, <<raw>>)
          ELSE
            LET e == enrich(up.conversations, details, g.ret)
            IN ProxyOutcome(g, 200,
                 [kind |-> "conversations", which |-> None, status_code |-> 0,
                  raw |-> raw, conversations_summary |-> up.conversations,
                  conversations_detailed |-> e.detailed],
                 <<search>> \o e.gets, <<raw>> \o e.ups)

\* safe_get_json: the parsed body, or an object with the raw text and the
\* status when the body does not parse; the status is not looked at.
safe_get_json(resp) ==
  IF resp.json
  THEN [kind |-> "json", status |-> 0, raw |-> resp]
  ELSE [kind |-> "non_json", status |-> resp.status, raw |-> resp]

\* GET /profile: three calls for the session's location (the first has the
\* location in its path), their bodies returned side by side.
profile(s, t, req, resp, legs) ==
  LET g == get_valid_access_token(s, t, resp)
      location_id == g.session.location_id
  IN IF g.exc /= None THEN ProxyUnhandled(g)
     ELSE IF g.ret = None \/ location_id = None
     THEN ProxyOutcome(g, 302, ProxyBody("redirect", None, 0, Unsent),
                       <<>>, <<>>)
     ELSE
       LET tenant == [NoParams EXCEPT !.locationId = location_id]
       IN ProxyOutcome(g, 200,
            [kind |-> "profile", which |-> None, status_code |-> 0,
             raw |-> Unsent, location |-> safe_get_json(legs[1]),
             campaigns |-> safe_get_json(legs[2]),
             contacts |-> safe_get_json(legs[3])],
            << UpReq("GET", "/locations/{location_id}", g.ret, tenant, <<>>),
               UpReq("GET", "/campaigns", g.ret, tenant, <<>>),
               UpReq("GET", "/contacts", g.ret, tenant, <<>>) >>,
            legs)

\* Answers to the location search of search_location_and_get_campaigns: the
\* parsed body's "locations" is a list of locations, each given by its id
\* (None: the location has no id).
LocationAnswers ==
  { [status |-> 500, json |-> TRUE, locations |-> <<>>],
    [status |-> 200, json |-> FALSE, locations |-> <<>>],
    [status |-> 200, json |-> TRUE, locations |-> <<>>],
    [status |-> 200, json |-> TRUE, locations |-> <<None>>],
    [status |-> 200, json |-> TRUE, locations |-> <<"L1">>],
    [status |-> 200, json |-> TRUE, locations |-> <<"L2", "L1">>] }

\* The locationId written into the campaigns request.
CampaignLocation == "Vhl9bqjezncp1pfb1gu4"

\* An exception raised by the handler after get_valid_access_token returned.
Raised(g, exc, gets, ups) ==
  [session |-> g.session, exc |-> exc, status |-> 500,
   body |-> ProxyBody("exception", None, 0, Unsent),
   posts |-> g.posts, resp |-> g.resp, gets |-> gets, up |-> NoAnswer,
   ups |-> ups, ret |-> g.ret]

\* GET /search_location_and_get_campaigns: a location search with the
\* companyId of the query string, then the campaigns request.  The search
\* body is parsed without a try, and the first location's id is read with a
\* subscript.
search_location_and_get_campaigns(s, t, req, resp, up, camp) ==
  LET g == get_valid_access_token(s, t, resp)
  IN IF g.exc /= None THEN ProxyUnhandled(g)
     ELSE IF g.ret = None THEN Unauthorized(g)
     ELSE
       LET search == UpReq("GET", "/locations/search", g.ret,
                           [NoParams EXCEPT !.companyId = req.query.companyId],
                           <<>>)
       IN IF up.status /= 200
          THEN ProxyOutcome(g, up.status,
                            ProxyBody("error", None, 0, up), <<search>>, <<up>>)
          ELSE IF ~up.json
          THEN Raised(g, "JSONDecodeError", <<search>>, <<up>>)
          ELSE IF up.locations = <<>>
          THEN ProxyOutcome(g, 404, ProxyBody("not_found", None, 0, Unsent),
                            <<search>>, <<up>>)
          ELSE IF up.locations[1] = None
          THEN Raised(g, "KeyError", <<search>>, <<up>>)
          ELSE
            LET campaigns ==
                  UpReq("GET", "/campaigns", g.ret,
                        [NoParams EXCEPT !.locationId = CampaignLocation], <<>>)
                gets == <<search, campaigns>>
                ups == <<up, camp>>
            IN IF camp.status /= 200
               THEN ProxyOutcome(g, camp.status,
                                 ProxyBody("error", None, camp.status, camp),
                                 gets, ups)
               ELSE IF ~camp.json
               THEN ProxyOutcome(g, 500,
                                 ProxyBody("unparseable", None, 0, camp),
                                 gets, ups)
               ELSE ProxyOutcome(g, 200,
                      [kind |-> "location_campaigns", which |-> None,
                       status_code |-> 0, raw |-> camp,
                       searched_location |-> up.locations[1]],
                      gets, ups)

\* ------------------------------------------------------------- the session
\* The session is a signed cookie: it is sent back with the response.  With
\* app.run(debug=True) an unhandled exception propagates and no cookie is
\* sent, so the browser keeps the session it had; without debug the 500
\* response carries the session as the handler left it.
save_session(pre, r, dbg) ==
  IF r.exc /= None /\ dbg THEN pre ELSE r.session

\* The token response the stored credential comes from: the grant, the time
\* of the store_tokens call and what the response declared.  It is kept
\* beside the session as a record of the last store_tokens call that
\* returned; a store_tokens call that raised after its first assignments and
\* whose session is kept leaves a credential of no single response.
Issue(r, t) ==
  <<[grant |-> r.posts[1], t0 |-> t, expires_in |-> r.resp.expires_in,
     access_token |-> r.resp.access_token]>>

track_issue(pre, r, dbg, t, old) ==
  IF r.exc = None /\ r.posts /= <<>> THEN Issue(r, t)
  ELSE IF save_session(pre, r, dbg) /= pre THEN <<>>
  ELSE old

\* ----------------------------------------------------------------- actions
Idle ==
  [op |-> "none", pre |-> EmptySession, issued |-> <<>>, error |-> None, code |-> None,
   location_id |-> None, exc |-> None, status |-> 0, body |-> Body("none"),
   posts |-> <<>>, resp |-> NoResp, gets |-> <<>>, up |-> NoAnswer,
   ret |-> None]

Record(op, pre, error, code, location_id, r) ==
  [op |-> op, pre |-> pre, issued |-> issued, error |-> error, code |-> code,
   location_id |-> location_id, exc |-> r.exc, status |-> r.status,
   body |-> r.body, posts |-> r.posts, resp |-> r.resp, gets |-> r.gets,
   up |-> r.up, ret |-> r.ret]

\* The requests that may be handled at the same time (the server handles
\* each request in a thread of its own), and the record of a thread that
\* handles none.  A request works on the session its cookie carried.
Requests == {1, 2}

Free ==
  [pc |-> "free", pre |-> EmptySession, session |-> EmptySession,
   exc |-> None, posts |-> <<>>, resp |-> NoResp]

Init ==
  /\ session = EmptySession
  /\ now = 0
  /\ debug \in BOOLEAN
  /\ issued = <<>>
  /\ last = Idle
  /\ inflight = [p \in Requests |-> Free]

\* Whether a handler run from session s sends a token request (the answer is
\* an input of the action only then) and whether it then sends an upstream
\* request.
SendsToken(r) == r.posts /= <<>>
SendsUpstream(r) == r.gets /= <<>>

\* What the authorization server redirects the browser to /callback with, and
\* what a browser may request by itself.
CallbackRequests ==
  { [error |-> "access_denied", code |-> None, location_id |-> None],
    [error |-> "access_denied", code |-> "code", location_id |-> None],
    [error |-> None, code |-> None, location_id |-> None],
    [error |-> None, code |-> "code", location_id |-> None],
    [error |-> None, code |-> "code", location_id |-> RedirectLocation] }

\* Time passes between two requests.
Tick ==
  \E d \in Deltas :
    /\ last = Idle
    /\ now + d <= MaxNow
    /\ now' = now + d
    /\ UNCHANGED <<session, debug, issued, last, inflight>>

\* GET /callback
Callback ==
  /\ last = Idle
  /\ \E q \in CallbackRequests :
    \E resp \in IF SendsToken(callback(session, now, q.error, q.code,
                                       q.location_id, Rejected))
                THEN ServerAnswers(session) ELSE {Rejected} :
      LET r == callback(session, now, q.error, q.code, q.location_id, resp)
      IN /\ session' = save_session(session, r, debug)
         /\ last' = Record("callback", session, q.error, q.code,
                           q.location_id, r)
         /\ issued' = track_issue(session, r, debug, now, issued)
         /\ UNCHANGED <<now, debug, inflight>>

\* GET /search_locations
SearchLocations ==
  /\ last = Idle
  /\ \E resp \in IF SendsToken(search_locations(session, now, Rejected, NoAnswer))
              THEN ServerAnswers(session) ELSE {Rejected} :
    \E up \in IF SendsUpstream(search_locations(session, now, resp, NoAnswer))
              THEN UpstreamAnswers ELSE {NoAnswer} :
      LET r == search_locations(session, now, resp, up)
      IN /\ session' = save_session(session, r, debug)
         /\ last' = Record("search_locations", session, None, None, None, r)
         /\ issued' = track_issue(session, r, debug, now, issued)
         /\ UNCHANGED <<now, debug, inflight>>

\* The response reaches the client; the next request can be made.
Respond ==
  /\ last /= Idle
  /\ last' = Idle
  /\ UNCHANGED <<session, now, debug, issued, inflight>>

Next == Tick \/ Callback \/ SearchLocations \/ Respond

Spec == Init /\ [][Next]_vars

\* -------------------------------------------------- the proxy requests
ProxyOps ==
  {"get_campaigns", "get_opportunities", "get_users", "search_contacts",
   "get_conversations_with_details", "profile"}

ProxyRecord(op, pre, req, r) ==
  [op |-> op, pre |-> pre, issued |-> issued, req |-> req, exc |-> r.exc,
   status |-> r.status, body |-> r.body, posts |-> r.posts, resp |-> r.resp,
   gets |-> r.gets, ups |-> r.ups, ret |-> r.ret]

\* What every proxy request does to the state once its handler has run.
Handled(op, req, r) ==
  /\ session' = save_session(session, r, debug)
  /\ last' = ProxyRecord(op, session, req, r)
  /\ issued' = track_issue(session, r, debug, now, issued)
  /\ UNCHANGED <<now, debug, inflight>>

\* An answer that stands for "any" when asking whether a request is sent.
Probe == [status |-> 500, json |-> TRUE, conversations |-> <<>>]

TokenAnswersFor(probe) ==
  IF SendsToken(probe) THEN ProxyServerAnswers(session) ELSE {Rejected}

GetCampaigns ==
  /\ last = Idle
  /\ \E req \in ProxyRequests :
      \E resp \in TokenAnswersFor(get_campaigns(session, now, req, Rejected, Probe)) :
        \E up \in IF SendsUpstream(get_campaigns(session, now, req, resp, Probe))
                  THEN ProxyAnswers ELSE {Unsent} :
          Handled("get_campaigns", req,
                  get_campaigns(session, now, req, resp, up))

GetOpportunities ==
  /\ last = Idle
  /\ \E req \in ProxyRequests :
      \E resp \in TokenAnswersFor(get_opportunities(session, now, req, Rejected, Probe)) :
        \E up \in IF SendsUpstream(get_opportunities(session, now, req, resp, Probe))
                  THEN ProxyAnswers ELSE {Unsent} :
          Handled("get_opportunities", req,
                  get_opportunities(session, now, req, resp, up))

GetUsers ==
  /\ last = Idle
  /\ \E req \in ProxyRequests :
      \E resp \in TokenAnswersFor(get_users(session, now, req, Rejected, Probe)) :
        \E up \in IF SendsUpstream(get_users(session, now, req, resp, Probe))
                  THEN ProxyAnswers ELSE {Unsent} :
          Handled("get_users", req, get_users(session, now, req, resp, up))

SearchContacts ==
  /\ last = Idle
  /\ \E req \in ProxyRequests :
      \E resp \in TokenAnswersFor(search_contacts(session, now, req, Rejected, Probe)) :
        \E up \in IF SendsUpstream(search_contacts(session, now, req, resp, Probe))
                  THEN ProxyAnswers ELSE {Unsent} :
          Handled("search_contacts", req,
                  search_contacts(session, now, req, resp, up))

GetConversationsWithDetails ==
  /\ last = Idle
  /\ \E req \in ProxyRequests :
      \E resp \in TokenAnswersFor(get_conversations_with_details(
                                    session, now, req, Rejected, Probe, <<>>)) :
        \E up \in IF SendsUpstream(get_conversations_with_details(
                                     session, now, req, resp, Probe, <<>>))
                  THEN ConversationAnswers ELSE {Probe} :
          \E details \in DetailAnswers(up) :
            Handled("get_conversations_with_details", req,
                    get_conversations_with_details(session, now, req, resp,
                                                   up, details))

Profile ==
  /\ last = Idle
  /\ \E req \in ProxyRequests :
      \E resp \in TokenAnswersFor(profile(session, now, req, Rejected,
                                          <<Probe, Probe, Probe>>)) :
        \E legs \in IF SendsUpstream(profile(session, now, req, resp,
                                             <<Probe, Probe, Probe>>))
                    THEN [1..3 -> PartAnswers]
                    ELSE {<<Unsent, Unsent, Unsent>>} :
          Handled("profile", req, profile(session, now, req, resp, legs))

\* A location search answer that stands for "any" when asking whether the
\* campaigns request is sent.
FoundProbe == [status |-> 200, json |-> TRUE, locations |-> <<"L1">>]

SearchLocationAndGetCampaigns ==
  /\ last = Idle
  /\ \E req \in ProxyRequests :
      \E resp \in TokenAnswersFor(search_location_and_get_campaigns(
                                    session, now, req, Rejected, Probe, Probe)) :
        \E up \in IF SendsUpstream(search_location_and_get_campaigns(
                                     session, now, req, resp, FoundProbe, Probe))
                  THEN LocationAnswers ELSE {FoundProbe} :
          \E camp \in IF Len(search_location_and_get_campaigns(
                               session, now, req, resp, up, Probe).gets) = 2
                      THEN ProxyAnswers ELSE {Unsent} :
            Handled("search_location_and_get_campaigns", req,
                    search_location_and_get_campaigns(session, now, req, resp,
                                                      up, camp))

\* The proxy requests of a browser session that was set up through
\* /callback; the clock stands still (an expires_in of 30 gives a record that
\* is expired at once).
NextProxy ==
  \/ Callback
  \/ GetCampaigns
  \/ GetOpportunities
  \/ GetUsers
  \/ SearchContacts
  \/ GetConversationsWithDetails
  \/ Profile
  \/ SearchLocations
  \/ SearchLocationAndGetCampaigns
  \/ Respond

SpecProxy == Init /\ [][NextProxy]_vars

\* ------------------------------------------------- transport failures
\* requests.get / requests.post raise ConnectionError (or Timeout) when the
\* peer cannot be reached; no handler catches it.  Failed stands in the place
\* of the answer of an upstream request that failed so, Unreachable in the
\* place of the answer of a token request.
Failed == [status |-> -1, json |-> FALSE]

Unreachable == [NoResp EXCEPT !.status = -1]

\* The outcome r of a handler when, instead, its k-th upstream request
\* raises: the requests up to the k-th were sent, the exception leaves the
\* handler.
connection_error(r, k) ==
  [r EXCEPT !.exc = "ConnectionError", !.status = 500,
            !.body = ProxyBody("exception", None, 0, Unsent),
            !.gets = SubSeq(r.gets, 1, k),
            !.ups = SubSeq(r.ups, 1, k - 1) \o <<Failed>>]

\* The outcome of a handler run from session s whose token request (of the
\* given grant) raises: nothing is stored.
post_connection_error(s, grant) ==
  [session |-> s, exc |-> "ConnectionError", status |-> 500,
   body |-> ProxyBody("exception", None, 0, Unsent),
   posts |-> <<grant>>, resp |-> Unreachable, gets |-> <<>>, up |-> NoAnswer,
   ups |-> <<>>, ret |-> None]

\* GET /callback while the token endpoint cannot be reached.
CallbackOffline ==
  /\ last = Idle
  /\ \E q \in CallbackRequests :
      LET probe == callback(session, now, q.error, q.code, q.location_id,
                            Rejected)
      IN /\ SendsToken(probe)
         /\ LET r == post_connection_error(session, probe.posts[1])
            IN /\ session' = save_session(session, r, debug)
               /\ last' = Record("callback", session, q.error, q.code,
                                 q.location_id, r)
               /\ issued' = track_issue(session, r, debug, now, issued)
               /\ UNCHANGED <<now, debug, inflight>>

\* GET /get_opportunities on an expired record while the token endpoint
\* cannot be reached.
RefreshOffline ==
  /\ last = Idle
  /\ \E req \in ProxyRequests :
      /\ SendsToken(get_opportunities(session, now, req, Rejected, Probe))
      /\ Handled("get_opportunities", req,
                 post_connection_error(session, "refresh_token"))

\* GET /get_opportunities while the upstream API cannot be reached.
GetOpportunitiesOffline ==
  /\ last = Idle
  /\ \E req \in ProxyRequests :
      \E resp \in TokenAnswersFor(get_opportunities(session, now, req,
                                                    Rejected, Probe)) :
        LET r == get_opportunities(session, now, req, resp, Probe)
        IN /\ SendsUpstream(r)
           /\ Handled("get_opportunities", req, connection_error(r, 1))

\* GET /profile while the k-th of its three calls fails.
ProfileOffline ==
  /\ last = Idle
  /\ \E req \in ProxyRequests, k \in 1..3 :
      \E resp \in TokenAnswersFor(profile(session, now, req, Rejected,
                                          <<Probe, Probe, Probe>>)) :
        \E legs \in [1..3 -> PartAnswers] :
          LET r == profile(session, now, req, resp, legs)
          IN /\ SendsUpstream(r)
             /\ Handled("profile", req, connection_error(r, k))

NextTransport ==
  \/ Callback
  \/ GetOpportunities
  \/ Profile
  \/ CallbackOffline
  \/ RefreshOffline
  \/ GetOpportunitiesOffline
  \/ ProfileOffline
  \/ Respond

SpecTransport == Init /\ [][NextTransport]_vars

\* ------------------------------------------------- requests in parallel
\* A handler that calls get_valid_access_token, run by thread p, in the
\* steps at which another thread can come in between: the request arrives
\* with the browser's cookie, token_expired() is evaluated on it, the refresh
\* grant is POSTed, the answer is stored in the request's session, and the
\* response takes the session back to the browser.

\* A refresh guard that lets one refresh at a time run for the session.
refresh_allowed_single_flight(threads, p) ==
  /\ threads[p].pc = "expired"
  /\ \A q \in Requests \ {p} : threads[q].pc /= "posted"

\* Whether thread p, having seen the token expired, may send its refresh
\* grant: nothing but its own expiry check stands before the POST.
refresh_allowed(threads, p) == threads[p].pc = "expired"

Arrive(p) ==
  /\ last = Idle
  /\ inflight[p].pc = "free"
  /\ inflight' = [inflight EXCEPT ![p] =
                    [Free EXCEPT !.pc = "arrived", !.pre = session,
                                 !.session = session]]
  /\ UNCHANGED <<session, now, debug, issued, last>>

CheckExpiry(p) ==
  /\ inflight[p].pc = "arrived"
  /\ inflight' = [inflight EXCEPT ![p].pc =
                    IF token_expired(inflight[p].session, now)
                    THEN "expired" ELSE "returned"]
  /\ UNCHANGED <<session, now, debug, issued, last>>

PostRefresh(p) ==
  /\ refresh_allowed(inflight, p)
  /\ inflight' = [inflight EXCEPT ![p].pc = "posted",
                                  ![p].posts = <<"refresh_token">>]
  /\ UNCHANGED <<session, now, debug, issued, last>>

StoreRefresh(p) ==
  /\ inflight[p].pc = "posted"
  /\ \E resp \in ProxyServerAnswers(inflight[p].session) :
      LET r == refresh_access_token(inflight[p].session, now, resp)
      IN inflight' = [inflight EXCEPT ![p].pc = "returned",
                                      ![p].session = r.session,
                                      ![p].exc = r.exc,
                                      ![p].resp = r.resp]
  /\ UNCHANGED <<session, now, debug, issued, last>>

Leave(p) ==
  /\ inflight[p].pc = "returned"
  /\ session' = save_session(session, inflight[p], debug)
  /\ issued' = track_issue(session, inflight[p], debug, now, issued)
  /\ inflight' = [inflight EXCEPT ![p] = Free]
  /\ UNCHANGED <<now, debug, last>>

\* The answers to the code exchange that sets the session up: grants that
\* carry every key, expired at once (expires_in 30) or not.
SignInAnswers(s) ==
  {x \in ServerAnswers(s) :
     /\ x.access_token /= None
     /\ x.refresh_token = "R1"
     /\ x.expires_in \in {<<30>>, <<60>>}
     /\ x.locationId = ResponseLocation
     /\ x.companyId = "C1"}

\* GET /callback?code=... while no other request is being handled.
SignIn ==
  /\ last = Idle
  /\ \A p \in Requests : inflight[p].pc = "free"
  /\ \E resp \in SignInAnswers(session) :
      LET r == callback(session, now, None, "code", None, resp)
      IN /\ session' = save_session(session, r, debug)
         /\ last' = Record("callback", session, None, "code", None, r)
         /\ issued' = track_issue(session, r, debug, now, issued)
         /\ UNCHANGED <<now, debug, inflight>>

NextConcurrent ==
  \/ SignIn
  \/ Respond
  \/ \E p \in Requests : Arrive(p)
  \/ \E p \in Requests : CheckExpiry(p)
  \/ \E p \in Requests : PostRefresh(p)
  \/ \E p \in Requests : StoreRefresh(p)
  \/ \E p \in Requests : Leave(p)

SpecConcurrent == Init /\ [][NextConcurrent]_vars




\* ================================================================== claims
\* A state just after a handler ran get_valid_access_token (the call is the
\* first statement of search_locations, made from session last.pre at `now`).
GvatCalled == last.op = "search_locations"

\* ... and the call returned (raised nothing).
GvatReturned == GvatCalled /\ last.exc = None

\* The stored token of session s is past its expiry at time t.
PastExpiry(s, t) == s.token_expires_at /= <<>> /\ t >= s.token_expires_at[1]

\* A token request of this grant was sent and answered by the handler of `last`.
Sent(grant) == last.posts = <<grant>>

\* C1 (as claimed): whenever get_valid_access_token returns, the token is
\* non-empty and the stored expires_at is strictly later than the current time.
C1_NeverStale ==
  GvatReturned =>
    /\ last.ret /= None
    /\ session.token_expires_at /= <<>>
    /\ session.token_expires_at[1] > now

\* C1 (amended): whenever get_valid_access_token returns, the token is
\* non-empty and is the stored one; it is either the cached token, whose
\* stored expires_at is strictly later than the current time, or the token
\* just issued by the one refresh of this call, whose stored expires_at is
\* now + expires_in - 30 (later than now only when expires_in > 30).
C1_FreshOrJustIssued ==
  GvatReturned =>
    /\ last.ret /= None
    /\ last.ret = session.access_token
    /\ session.token_expires_at /= <<>>
    /\ \/ /\ last.posts = <<>>
          /\ last.ret = last.pre.access_token
          /\ session.token_expires_at[1] > now
       \/ /\ Sent("refresh_token")
          /\ last.ret = last.resp.access_token
          /\ session.token_expires_at[1]
               = now + GetInt(last.resp.expires_in, 3600) - 30
          /\ (GetInt(last.resp.expires_in, 3600) > 30
                => session.token_expires_at[1] > now)

\* C1 witness: a call that refreshed and returned a token whose stored
\* expires_at is not later than the current time.
C1_Witness ==
  /\ GvatReturned
  /\ Sent("refresh_token")
  /\ last.resp.expires_in = <<30>>
  /\ session.token_expires_at[1] <= now

\* C2 (as claimed): with no access_token in the session the handler fails
\* closed: an auth failure, no token request, no upstream request, and the
\* session stays as it was.
C2_FailsClosed ==
  (GvatCalled /\ last.pre.access_token = None) =>
    /\ last.status = 401
    /\ last.posts = <<>>
    /\ last.gets = <<>>
    /\ session = last.pre

\* C3 (as claimed): from a record past its expiry that holds a refresh token,
\* one call sends exactly one refresh grant and, when the answer issues an
\* access token, returns that token.
C3_OneRefreshReturnsNew ==
  (GvatCalled /\ PastExpiry(last.pre, now) /\ last.pre.refresh_token /= None) =>
    /\ Sent("refresh_token")
    /\ (last.resp.status = 200 /\ last.resp.access_token /= None) =>
         (last.exc = None /\ last.ret = last.resp.access_token)

\* C4 (as claimed): a get_valid_access_token call made right after a
\* successful code exchange, with no time elapsed, returns the token of the
\* exchange and sends no refresh grant, whatever expires_in was declared.
C4_NoRefreshAfterExchange ==
  (/\ GvatCalled
   /\ last.issued /= <<>>
   /\ last.issued[1].grant = "authorization_code"
   /\ last.issued[1].t0 = now) =>
    /\ last.posts = <<>>
    /\ last.exc = None
    /\ last.ret = last.issued[1].access_token

\* C4 (amended): the same, for an exchange whose response declared an
\* expires_in greater than 30 seconds or none (3600 is then assumed).
C4_NoRefreshAfterExchangeOver30 ==
  (/\ GvatCalled
   /\ last.issued /= <<>>
   /\ last.issued[1].grant = "authorization_code"
   /\ last.issued[1].t0 = now
   /\ GetInt(last.issued[1].expires_in, 3600) > 30) =>
    /\ last.posts = <<>>
    /\ last.exc = None
    /\ last.ret = last.issued[1].access_token

\* C4 witness: such a call, after an exchange that declared 60 seconds.
C4_Witness ==
  /\ GvatCalled
  /\ last.issued /= <<>>
  /\ last.issued[1].grant = "authorization_code"
  /\ last.issued[1].t0 = now
  /\ last.issued[1].expires_in = <<60>>
  /\ last.posts = <<>>
  /\ last.ret = last.issued[1].access_token

\* C5 (as claimed): from a record past its expiry that holds no refresh
\* token, the call fails and sends no token request.
C5_NoRefreshTokenNoRequest ==
  (GvatCalled /\ PastExpiry(last.pre, now) /\ last.pre.refresh_token = None) =>
    /\ last.exc /= None
    /\ last.posts = <<>>

\* A refresh grant was sent and the handler completed (store_tokens returned).
RefreshDone == Sent("refresh_token") /\ last.exc = None

\* The answer to the token request issued an access token.
Issued == last.resp.status = 200 /\ last.resp.access_token /= None

\* C6 (as claimed): a successful refresh keeps the stored refresh_token when
\* the response carries none, and overwrites it only when the response
\* carries one.
C6_RefreshTokenKept ==
  RefreshDone =>
    session.refresh_token =
      IF last.resp.refresh_token /= None
      THEN last.resp.refresh_token
      ELSE last.pre.refresh_token

\* C7 (as claimed): a refresh of a record that holds a location_id and a
\* company_id, answered with an access token but neither locationId nor
\* companyId, completes and leaves the stored location_id and company_id as
\* they were.
C7_TenantKeptOnRefresh ==
  (/\ Sent("refresh_token")
   /\ last.pre.location_id /= None
   /\ last.pre.company_id /= None
   /\ Issued
   /\ last.resp.locationId = None
   /\ last.resp.companyId = None) =>
    /\ last.exc = None
    /\ session.location_id = last.pre.location_id
    /\ session.company_id = last.pre.company_id

\* The location_id argument store_tokens was called with by the handler of
\* `last`: the redirect's locationId on exchange, the stored one on refresh.
StoreArg ==
  IF Sent("authorization_code") THEN last.location_id ELSE last.pre.location_id

\* All five fields are the result of the token response of `last`.
AllFromResponse ==
  /\ session.access_token = last.resp.access_token
  /\ session.refresh_token = last.resp.refresh_token
  /\ session.token_expires_at
       = <<now + GetInt(last.resp.expires_in, 3600) - 30>>
  /\ session.location_id
       = (IF StoreArg /= None THEN StoreArg ELSE last.resp.locationId)
  /\ session.company_id = last.resp.companyId

\* C8 (as claimed): after a step that sent a token request, the five stored
\* fields are all the result of the response or all as before the step.
C8_AtomicUpdate ==
  (last.op /= "none" /\ last.posts /= <<>>) =>
    (session = last.pre \/ AllFromResponse)

\* C9: an exchange or refresh answered with a non-2xx status, or with a 2xx
\* status and no access_token, ends in an error (the handler raises and the
\* caller gets status 500) and leaves the stored record unchanged.
C9_FailedGrantKeepsRecord ==
  (/\ last.posts /= <<>>
   /\ \/ last.resp.status >= 400
      \/ (last.resp.status = 200 /\ last.resp.access_token = None)) =>
    /\ last.exc /= None
    /\ last.status = 500
    /\ last.gets = <<>>
    /\ session = last.pre

\* C9 witness: a refresh from a record that holds tokens, answered 200
\* without an access_token, in a deployment that keeps the session of a
\* failed request.
C9_Witness ==
  /\ Sent("refresh_token")
  /\ last.resp = Malformed
  /\ last.pre.refresh_token /= None
  /\ last.pre.access_token /= None
  /\ ~debug
  /\ last.exc = "KeyError"

\* C10: (a) a completed exchange or refresh at time t0 stores
\* expires_at = t0 + e - 30, with e = 3600 when the response declares none;
\* (b) a get_valid_access_token call on a record with an expiry refreshes
\* exactly when now >= expires_at; (c) with e = 60 a call at t0 + 31 or later
\* refreshes and a call before t0 + 30 does not.
C10_ExpiryArithmetic ==
  /\ (last.op /= "none" /\ last.posts /= <<>> /\ last.exc = None) =>
       session.token_expires_at
         = <<now + (IF last.resp.expires_in = <<>>
                    THEN 3600 ELSE last.resp.expires_in[1]) - 30>>
  /\ (GvatCalled /\ last.pre.token_expires_at /= <<>>) =>
       (last.posts /= <<>> <=> now >= last.pre.token_expires_at[1])
  /\ (GvatCalled /\ last.issued /= <<>> /\ last.issued[1].expires_in = <<60>>) =>
       /\ last.pre.token_expires_at = <<last.issued[1].t0 + 30>>
       /\ (now >= last.issued[1].t0 + 31 => Sent("refresh_token"))
       /\ (now < last.issued[1].t0 + 30 => last.posts = <<>>)

\* C10 witness: a call 31 seconds after an exchange that declared 60 seconds.
C10_Witness ==
  /\ GvatCalled
  /\ last.issued /= <<>>
  /\ last.issued[1].grant = "authorization_code"
  /\ last.issued[1].expires_in = <<60>>
  /\ now = last.issued[1].t0 + 31
  /\ Sent("refresh_token")

\* C11: nothing is retried.  A handler sends at most one token request; a
\* get_valid_access_token call on a record whose expiry is still ahead sends
\* none; a token request that fails (error status, or no access_token, or a
\* store_tokens that raises) is the only one of the call and the failure
\* reaches the caller at once, before any upstream request.
C11_NoRetry ==
  /\ (last.op /= "none") => Len(last.posts) <= 1
  /\ (/\ GvatCalled
      /\ last.pre.token_expires_at /= <<>>
      /\ now < last.pre.token_expires_at[1]) => last.posts = <<>>
  /\ (last.op /= "none" /\ last.posts /= <<>> /\ ~Issued) =>
       /\ Len(last.posts) = 1
       /\ last.exc /= None
       /\ last.status = 500
       /\ last.gets = <<>>
  /\ (last.op /= "none" /\ last.exc /= None) =>
       /\ Len(last.posts) = 1
       /\ last.status = 500
       /\ last.gets = <<>>

\* C11 witness: a call on an expired record whose one refresh grant was
\* rejected.
C11_Witness ==
  /\ GvatCalled
  /\ PastExpiry(last.pre, now)
  /\ last.pre.refresh_token /= None
  /\ last.resp = Rejected
  /\ last.posts = <<"refresh_token">>
  /\ last.exc = "HTTPError"

\* A /callback request that carries a code and no error.
CallbackWithCode ==
  last.op = "callback" /\ last.error = None /\ last.code /= None

\* C12 (as claimed): a callback with a code and no error sends the
\* authorization-code grant and, when it completes, leaves a record that is
\* wholly the result of the response, whatever the session held.
C12_CodeAlwaysExchanged ==
  CallbackWithCode =>
    /\ Sent("authorization_code")
    /\ (last.exc = None => AllFromResponse)

\* C12 (amended): a callback with a code and no error exchanges the code only
\* when the session holds no access token, and the record is then wholly the
\* result of the response; when the session holds an access token the code is
\* not used: the record is left alone if the token is not expired and is
\* refreshed if it is.
C12_CodeExchangedWithoutToken ==
  CallbackWithCode =>
    IF last.pre.access_token = None
    THEN /\ Sent("authorization_code")
         /\ (last.exc = None => (AllFromResponse /\ last.status = 200))
    ELSE /\ ~Sent("authorization_code")
         /\ IF PastExpiry(last.pre, now)
            THEN Sent("refresh_token")
            ELSE last.posts = <<>> /\ session = last.pre /\ last.status = 200

\* C12 witness: a callback with a code on a session whose token is not
\* expired; no token request is sent and the record stays.
C12_Witness ==
  /\ CallbackWithCode
  /\ last.pre.access_token /= None
  /\ ~PastExpiry(last.pre, now)
  /\ last.posts = <<>>
  /\ session = last.pre

\* C13: a callback with the error parameter, or with no code while the
\* session holds no access token, is answered 400, sends no token request and
\* leaves the session unchanged.
C13_CallbackClientError ==
  (/\ last.op = "callback"
   /\ \/ last.error /= None
      \/ (last.code = None /\ last.pre.access_token = None)) =>
    /\ last.status = 400
    /\ last.exc = None
    /\ last.posts = <<>>
    /\ session = last.pre

\* C13 witness: a callback that carries both an error and a code.
C13_Witness ==
  /\ last.op = "callback"
  /\ last.error /= None
  /\ last.code /= None
  /\ last.status = 400

\* C14: after a completed code exchange the stored location_id is the
\* redirect's locationId when the redirect carries one, whatever the response
\* holds, and the response's locationId otherwise.
C14_RedirectLocationWins ==
  (Sent("authorization_code") /\ last.exc = None) =>
    session.location_id =
      IF last.location_id /= None THEN last.location_id
      ELSE last.resp.locationId

\* C14 witness: the redirect and the response carry different locations.
C14_Witness ==
  /\ Sent("authorization_code")
  /\ last.exc = None
  /\ last.location_id = RedirectLocation
  /\ last.resp.locationId = ResponseLocation
  /\ session.location_id = RedirectLocation

\* A proxy request was just handled.
ProxyCalled == last.op \in ProxyOps

\* The bearer token the request itself supplies: the Authorization header's,
\* else the token query parameter's, else none.
SuppliedToken(req) ==
  IF req.header /= None THEN req.header ELSE req.query.access_token

\* C15: the bearer token sent upstream is the Authorization header's, else
\* the token query parameter's, else the session's; a request that supplies
\* its own token leaves the session alone and triggers no refresh, even when
\* the session's token is expired.
C15_TokenPrecedence ==
  ProxyCalled =>
    IF SuppliedToken(last.req) /= None
    THEN /\ last.posts = <<>>
         /\ last.exc = None
         /\ session = last.pre
         /\ \A i \in 1..Len(last.gets) :
              last.gets[i].bearer = SuppliedToken(last.req)
    ELSE \A i \in 1..Len(last.gets) :
           last.gets[i].bearer = session.access_token

\* The tenant identifier a handler forwards with its first upstream request,
\* and the tiers the request offers for it.
ForwardedLocation ==
  CASE last.op = "search_contacts" -> last.gets[1].json[1].locationId
    [] last.op = "get_opportunities" -> last.gets[1].params.location_id
    [] OTHER -> last.gets[1].params.locationId

QueryTier(op, req) ==
  IF op = "get_opportunities" THEN req.query.location_id
  ELSE req.query.locationId

BodyTier(req) == IF req.body = <<>> THEN None ELSE req.body[1].locationId

ResolvedLocation ==
  IF QueryTier(last.op, last.req) /= None THEN QueryTier(last.op, last.req)
  ELSE IF BodyTier(last.req) /= None THEN BodyTier(last.req)
  ELSE session.location_id

ResolvedCompany ==
  IF last.req.query.companyId /= None THEN last.req.query.companyId
  ELSE session.company_id

\* The handler got a bearer token and went on to resolve the tenant.
TokenResolved == ProxyCalled /\ last.exc = None /\ last.ret /= None

\* C16: the tenant identifier forwarded upstream is the query parameter's,
\* else the JSON body's, else the session's; a request whose identifier one
\* of the tiers gives is forwarded with it.
C16_TenantPrecedence ==
  (TokenResolved /\ ResolvedLocation /= None
   /\ (last.op = "get_users" => ResolvedCompany /= None)) =>
    /\ last.gets /= <<>>
    /\ ForwardedLocation = ResolvedLocation

\* C17: a proxy request whose required tenant identifier no tier gives is
\* answered with the missing-identifier error that names the identifier, and
\* no upstream request is sent for it.
C17_MissingTenantNamed ==
  (TokenResolved
   /\ \/ ResolvedLocation = None
      \/ (last.op = "get_users" /\ ResolvedCompany = None)) =>
    /\ last.gets = <<>>
    /\ last.status = 400
    /\ last.body.kind = "missing"
    /\ \/ /\ ResolvedLocation = None
          /\ last.body.which \in {"locationId", "location_id"}
       \/ /\ last.op = "get_users" /\ ResolvedCompany = None
          /\ last.body.which = "companyId"

Is2xx(status) == status >= 200 /\ status < 300

\* C18: an upstream answer with a non-2xx status is answered to the caller
\* with an error envelope under that status that carries the status and the
\* raw body; the caller gets no 2xx when an upstream call of the request was
\* answered non-2xx, and a 2xx upstream answer (with a body that parses) is
\* not reported as an error.  For the search-then-enrich handler the upstream
\* call is the search.
C18_UpstreamStatusSurfaced ==
  (ProxyCalled /\ last.ups /= <<>>) =>
    IF last.op = "profile"
    THEN (\E i \in 1..Len(last.ups) : ~Is2xx(last.ups[i].status))
           => ~Is2xx(last.status)
    ELSE /\ ~Is2xx(last.ups[1].status) =>
              /\ last.status = last.ups[1].status
              /\ last.body.kind = "error"
              /\ last.body.status_code = last.ups[1].status
              /\ last.body.raw = last.ups[1]
         /\ (Is2xx(last.ups[1].status) /\ last.ups[1].json) =>
              /\ Is2xx(last.status)
              /\ last.body.kind /= "error"

\* C19: a 2xx upstream answer whose body does not parse as JSON is answered
\* with the 'unparseable' error envelope that carries the raw text, not
\* relayed with a success status.
C19_UnparseableEnvelope ==
  (/\ last.op = "search_locations"
   /\ last.gets /= <<>>
   /\ Is2xx(last.up.status)
   /\ ~last.up.json) =>
    /\ ~Is2xx(last.status)
    /\ last.body.kind = "unparseable"

\* The search of get_conversations_with_details gave a parsed list.
ConversationsEnriched ==
  /\ last.op = "get_conversations_with_details"
  /\ last.body.kind = "conversations"

HasId(conversation_id) == conversation_id /= None

\* The detail calls run in the order of `ids`, and entry i of the result is
\* the one of ids[i]: the full detail when the call gave a parsed 200, an
\* inline error object otherwise.
DetailsFollow(ids) ==
  LET calls == Tail(last.gets)
      answers == Tail(last.ups)
      detailed == last.body.conversations_detailed
  IN /\ last.status = 200
     /\ Len(calls) = Len(ids)
     /\ Len(detailed) = Len(ids)
     /\ \A i \in 1..Len(ids) :
          /\ calls[i].path = ConversationPath(ids[i])
          /\ calls[i].bearer = last.ret
          /\ detailed[i].id = ids[i]
          /\ detailed[i].raw = answers[i]
          /\ IF answers[i].status = 200 /\ answers[i].json
             THEN detailed[i].kind = "detail"
             ELSE detailed[i].kind \in {"error", "unparseable"}

\* C20 (as claimed): n summaries give exactly n detail calls and n entries,
\* in the order of the summaries.
C20_OneDetailPerSummary ==
  ConversationsEnriched =>
    /\ Len(Tail(last.gets)) = Len(last.body.conversations_summary)
    /\ Len(last.body.conversations_detailed)
         = Len(last.body.conversations_summary)

\* C20 (amended): the summaries that have an id give one detail call and one
\* entry each, in the order of the summaries; a summary without id gives
\* neither; a failed detail call gives an inline error object and the calls
\* after it are still made.
C20_OneDetailPerSummaryWithId ==
  ConversationsEnriched =>
    DetailsFollow(SelectSeq(last.body.conversations_summary, HasId))

\* C20 witness: three summaries, the second detail call answered 500.
C20_Witness ==
  /\ ConversationsEnriched
  /\ last.body.conversations_summary = <<"c1", "c2", "c3">>
  /\ last.ups[3].status = 500
  /\ last.body.conversations_detailed[1].kind = "detail"
  /\ last.body.conversations_detailed[2].kind = "error"
  /\ last.body.conversations_detailed[3].kind = "detail"

\* C24: a completed refresh whose response carries a locationId or companyId
\* stores the response's value in place of the stored one; the stored value
\* stays only when the response carries none.
C24_RefreshReplacesTenant ==
  RefreshDone =>
    /\ session.location_id =
         IF last.resp.locationId /= None THEN last.resp.locationId
         ELSE last.pre.location_id
    /\ session.company_id =
         IF last.resp.companyId /= None THEN last.resp.companyId
         ELSE last.pre.company_id

\* C25: the campaigns request of search_location_and_get_campaigns asks for
\* the location the search found: its locationId is the id of the first
\* location of the search result.
C25_CampaignsOfFoundLocation ==
  (last.op = "search_location_and_get_campaigns" /\ Len(last.gets) = 2) =>
    last.gets[2].params.locationId = last.ups[1].locations[1]

\* The handlers that take their bearer token from the session.
SessionOps ==
  ProxyOps \cup {"search_locations", "search_location_and_get_campaigns"}

\* C26: every upstream request of a handler carries the non-empty token
\* get_valid_access_token returned to it, which after a refresh is the token
\* just issued (the token is resolved before the request is sent); a handler
\* that got no token, or whose get_valid_access_token raised, sends nothing
\* upstream and answers 401, a redirect or 500.
C26_NoRequestWithoutToken ==
  (last.op \in SessionOps) =>
    /\ \A i \in 1..Len(last.gets) :
         /\ last.gets[i].bearer /= None
         /\ last.gets[i].bearer = last.ret
         /\ last.posts /= <<>> => last.gets[i].bearer = last.resp.access_token
    /\ (last.ret = None) =>
         /\ last.gets = <<>>
         /\ last.status \in {401, 302, 500}

\* C26 witness: a handler refreshed the expired record and then sent its
\* upstream request with the token just issued.
C26_Witness ==
  /\ last.op = "get_opportunities"
  /\ last.posts = <<"refresh_token">>
  /\ last.gets /= <<>>
  /\ last.gets[1].bearer = last.resp.access_token
  /\ last.gets[1].bearer /= last.pre.access_token

\* An outbound request of the request just handled failed at transport
\* level: its token request or one of its upstream requests.
TransportFailed ==
  /\ last.op /= "none"
  /\ \/ last.resp = Unreachable
     \/ /\ last.op \in ProxyOps
        /\ \E i \in 1..Len(last.ups) : last.ups[i] = Failed

\* C22: a transport-level failure of an outbound request (to the upstream
\* API or to the token endpoint) is answered to the caller with a 502-class
\* error envelope, not with an unhandled failure.
C22_TransportFailureEnvelope ==
  TransportFailed =>
    /\ last.exc = None
    /\ last.status \in {502, 503, 504}

\* The value the profile response carries for leg i.
LegValue(i) ==
  CASE i = 1 -> last.body.location
    [] i = 2 -> last.body.campaigns
    [] i = 3 -> last.body.contacts

\* C23: a /profile request that went upstream is answered with all three
\* keys whatever happened to a leg: each leg carries its own result, a leg
\* whose body did not parse or whose call failed carries an inline error
\* value.
C23_ProfileLegsIndependent ==
  (last.op = "profile" /\ last.gets /= <<>>) =>
    /\ last.exc = None
    /\ last.body.kind = "profile"
    /\ Len(last.gets) = 3
    /\ \A i \in 1..3 :
         IF last.ups[i] = Failed \/ ~last.ups[i].json
         THEN LegValue(i).kind /= "json"
         ELSE LegValue(i).kind = "json" /\ LegValue(i).raw = last.ups[i]

\* C21: refreshes are not serialized per session.  A thread that has seen
\* the token expired can send its refresh grant whatever the other threads
\* are doing, and every thread that saw its copy of the record expired and
\* went on has sent a refresh grant of its own.
C21_RefreshNotSerialized ==
  \A p \in Requests :
    /\ (inflight[p].pc = "expired") => ENABLED PostRefresh(p)
    /\ (inflight[p].pc \in {"posted", "returned"}
        /\ token_expired(inflight[p].pre, now)) =>
         inflight[p].posts = <<"refresh_token">>

\* C21 witness: two requests arrived with the same expired record and both
\* have sent their refresh grant, neither having an answer yet.
C21_Witness ==
  /\ inflight[1].pc = "posted"
  /\ inflight[2].pc = "posted"
  /\ inflight[1].pre = inflight[2].pre
  /\ inflight[1].pre.refresh_token /= None
  /\ PastExpiry(inflight[1].pre, now)
  /\ inflight[1].posts = <<"refresh_token">>
  /\ inflight[2].posts = <<"refresh_token">>

====
